---- MODULE Spec2Model ----
(***************************************************************************)
(* Model of crates/ordinals/src/rarity.rs: the Rarity enum, its u8 and     *)
(* string codecs, and the derivation of a sat's rarity from its degree.    *)
(*                                                                         *)
(* A Rust string is modelled as the sequence of its bytes (ASCII codes),   *)
(* so formatting and parsing are real conversions between two types.       *)
(* Every conversion is a pure function; an action is one call of it, and   *)
(* the state records the last call (call, arg, ret).  A second             *)
(* specification walks the emission sat by sat.                            *)
(***************************************************************************)
EXTENDS Integers, Sequences, FiniteSets, TLC

VARIABLES call, arg, ret, height, offset, prev, cur

vars == <<call, arg, ret, height, offset, prev, cur>>

callVars == <<call, arg, ret>>

walkVars == <<height, offset, prev, cur>>

(***************************************************************************)
(* Bounds.  The protocol lengths and the first subsidy are scaled down;    *)
(* like the real ones (210000 and 2016) the two lengths do not divide one  *)
(* another, and their least common multiple falls on an era boundary.      *)
(***************************************************************************)
SUBSIDY_HALVING_INTERVAL == 6

DIFFCHANGE_INTERVAL == 4

InitialSubsidy == 32

MaxHour == 2

MaxSubsidy == 4

MaxStrLen == 4

\* Largest value of the u8 type.
U8_MAX == 255

(***************************************************************************)
(* enum Rarity, in declaration order.                                      *)
(***************************************************************************)
RarityDecl ==
  << "Common", "Uncommon", "Rare", "Epic", "Legendary", "Mythic",
     "BlackUncommon", "BlackRare", "BlackEpic", "BlackLegendary" >>

Rarity == { RarityDecl[i] : i \in DOMAIN RarityDecl }

\* Result<T, E>
Ok(v) == [ok |-> TRUE, val |-> v]

Err(e) == [ok |-> FALSE, val |-> e]

(***************************************************************************)
(* impl From<Rarity> for u8: `rarity as u8`, the discriminant, which for   *)
(* a field-less enum without explicit values is the declaration index.     *)
(***************************************************************************)
AsU8_Shifted(rarity) == CHOOSE i \in DOMAIN RarityDecl : RarityDecl[i] = rarity

AsU8(rarity) == (CHOOSE i \in DOMAIN RarityDecl : RarityDecl[i] = rarity) - 1

(***************************************************************************)
(* impl TryFrom<u8> for Rarity                                             *)
(***************************************************************************)
TryFromU8_AcceptsSix(rarity) ==
  CASE rarity = 0 -> Ok("Common")
    [] rarity = 1 -> Ok("Uncommon")
    [] rarity = 2 -> Ok("Rare")
    [] rarity = 3 -> Ok("Epic")
    [] rarity = 4 -> Ok("Legendary")
    [] rarity = 5 -> Ok("Mythic")
    [] rarity = 6 -> Ok("BlackUncommon")
    [] OTHER -> Err(rarity)

TryFromU8(rarity) ==
  CASE rarity = 0 -> Ok("Common")
    [] rarity = 1 -> Ok("Uncommon")
    [] rarity = 2 -> Ok("Rare")
    [] rarity = 3 -> Ok("Epic")
    [] rarity = 4 -> Ok("Legendary")
    [] rarity = 5 -> Ok("Mythic")
    [] OTHER -> Err(rarity)

(***************************************************************************)
(* impl Display for Rarity: the bytes written to the formatter.            *)
(***************************************************************************)
Fmt_Hyphen(self) ==
  CASE self = "Common" -> <<99, 111, 109, 109, 111, 110>>
    [] self = "Uncommon" -> <<117, 110, 99, 111, 109, 109, 111, 110>>
    [] self = "Rare" -> <<114, 97, 114, 101>>
    [] self = "Epic" -> <<101, 112, 105, 99>>
    [] self = "Legendary" -> <<108, 101, 103, 101, 110, 100, 97, 114, 121>>
    [] self = "Mythic" -> <<109, 121, 116, 104, 105, 99>>
    [] self = "BlackUncommon" ->
         <<98, 108, 97, 99, 107, 45, 117, 110, 99, 111, 109, 109, 111, 110>>
    [] self = "BlackRare" -> <<98, 108, 97, 99, 107, 45, 114, 97, 114, 101>>
    [] self = "BlackEpic" -> <<98, 108, 97, 99, 107, 45, 101, 112, 105, 99>>
    [] self = "BlackLegendary" ->
         <<98, 108, 97, 99, 107, 45, 108, 101, 103, 101, 110, 100, 97, 114, 121>>

Fmt(self) ==
  CASE self = "Common" -> <<99, 111, 109, 109, 111, 110>>                \* common
    [] self = "Uncommon" -> <<117, 110, 99, 111, 109, 109, 111, 110>>    \* uncommon
    [] self = "Rare" -> <<114, 97, 114, 101>>                            \* rare
    [] self = "Epic" -> <<101, 112, 105, 99>>                            \* epic
    [] self = "Legendary" -> <<108, 101, 103, 101, 110, 100, 97, 114, 121>>
                                                                         \* legendary
    [] self = "Mythic" -> <<109, 121, 116, 104, 105, 99>>                \* mythic
    [] self = "BlackUncommon" ->                                         \* black_uncommon
         <<98, 108, 97, 99, 107, 95, 117, 110, 99, 111, 109, 109, 111, 110>>
    [] self = "BlackRare" -> <<98, 108, 97, 99, 107, 95, 114, 97, 114, 101>>
                                                                         \* black_rare
    [] self = "BlackEpic" -> <<98, 108, 97, 99, 107, 95, 101, 112, 105, 99>>
                                                                         \* black_epic
    [] self = "BlackLegendary" ->                                        \* black_legendary
         <<98, 108, 97, 99, 107, 95, 108, 101, 103, 101, 110, 100, 97, 114, 121>>

(***************************************************************************)
(* impl FromStr for Rarity.  The match compares the whole input with each  *)
(* literal; the fallback formats the input between two backticks (96).     *)
(***************************************************************************)
InvalidRarity(s) ==
  <<105, 110, 118, 97, 108, 105, 100, 32, 114, 97, 114, 105, 116, 121, 32, 96>>
    \o s \o <<96>>

MatchStr(s) ==
  CASE s = <<99, 111, 109, 109, 111, 110>> -> Ok("Common")
    [] s = <<117, 110, 99, 111, 109, 109, 111, 110>> -> Ok("Uncommon")
    [] s = <<114, 97, 114, 101>> -> Ok("Rare")
    [] s = <<101, 112, 105, 99>> -> Ok("Epic")
    [] s = <<108, 101, 103, 101, 110, 100, 97, 114, 121>> -> Ok("Legendary")
    [] s = <<109, 121, 116, 104, 105, 99>> -> Ok("Mythic")
    [] s = <<98, 108, 97, 99, 107, 95, 117, 110, 99, 111, 109, 109, 111, 110>> ->
         Ok("BlackUncommon")
    [] s = <<98, 108, 97, 99, 107, 95, 114, 97, 114, 101>> -> Ok("BlackRare")
    [] s = <<98, 108, 97, 99, 107, 95, 101, 112, 105, 99>> -> Ok("BlackEpic")
    [] s = <<98, 108, 97, 99, 107, 95, 108, 101, 103, 101, 110, 100, 97, 114, 121>> ->
         Ok("BlackLegendary")
    [] OTHER -> Err(InvalidRarity(s))

\* ASCII lowercase of a byte string.
ToAsciiLowercase(s) ==
  [i \in DOMAIN s |-> IF s[i] >= 65 /\ s[i] <= 90 THEN s[i] + 32 ELSE s[i]]

FromStr_IgnoreCase(s) ==
  LET r == MatchStr(ToAsciiLowercase(s))
  IN  IF r.ok THEN r ELSE Err(InvalidRarity(s))

FromStr(s) == MatchStr(s)

(***************************************************************************)
(* impl Serialize / Deserialize for Rarity.  collect_str hands the         *)
(* serializer the Display output; DeserializeFromStr parses the string     *)
(* it is given with FromStr.                                               *)
(***************************************************************************)
Serialize(self) == Fmt(self)

Deserialize(s) == FromStr(s)

(***************************************************************************)
(* impl From<Sat> for Rarity, on the sat's degree (hour, minute, second,   *)
(* third) and its epoch's subsidy.  The result is the set of outcomes a    *)
(* build can produce: `subsidy - 1` on u64 overflows when subsidy is 0,    *)
(* which panics with overflow checks and wraps to u64::MAX without; no     *)
(* third of the model equals u64::MAX, so the wrapped comparison fails.    *)
(***************************************************************************)
BlackTier(minute, second) ==
  IF minute = SUBSIDY_HALVING_INTERVAL - 1
    THEN IF second = DIFFCHANGE_INTERVAL - 1 THEN "BlackLegendary" ELSE "BlackEpic"
    ELSE IF second = DIFFCHANGE_INTERVAL - 1 THEN "BlackRare" ELSE "BlackUncommon"

\* Mutant: the black sub-rules compare with the length instead of length - 1.
FromSat_OffByOne(hour, minute, second, third, subsidy) ==
  IF hour = 0 /\ minute = 0 /\ second = 0 /\ third = 0 THEN {"Mythic"}
  ELSE IF minute = 0 /\ second = 0 /\ third = 0 THEN {"Legendary"}
  ELSE IF minute = 0 /\ third = 0 THEN {"Epic"}
  ELSE IF second = 0 /\ third = 0 THEN {"Rare"}
  ELSE IF third = 0 THEN {"Uncommon"}
  ELSE IF subsidy = 0 THEN {"Panic", "Common"}
  ELSE IF third = subsidy - 1 THEN
    {IF minute = SUBSIDY_HALVING_INTERVAL
       THEN IF second = DIFFCHANGE_INTERVAL THEN "BlackLegendary" ELSE "BlackEpic"
       ELSE IF second = DIFFCHANGE_INTERVAL THEN "BlackRare" ELSE "BlackUncommon"}
  ELSE {"Common"}

\* Mutant: the end of the reward is found by the u64 difference
\* `third - (subsidy - 1) == 0`, which overflows for every inner unit.
FromSat_DistanceFromEnd(hour, minute, second, third, subsidy) ==
  IF hour = 0 /\ minute = 0 /\ second = 0 /\ third = 0 THEN {"Mythic"}
  ELSE IF minute = 0 /\ second = 0 /\ third = 0 THEN {"Legendary"}
  ELSE IF minute = 0 /\ third = 0 THEN {"Epic"}
  ELSE IF second = 0 /\ third = 0 THEN {"Rare"}
  ELSE IF third = 0 THEN {"Uncommon"}
  ELSE IF subsidy = 0 \/ third < subsidy - 1 THEN {"Panic", "Common"}
  ELSE IF third = subsidy - 1 THEN {BlackTier(minute, second)}
  ELSE {"Common"}

\* Mutant: the Mythic rule forgets `third == 0`.
FromSat_MythicBlock(hour, minute, second, third, subsidy) ==
  IF hour = 0 /\ minute = 0 /\ second = 0 THEN {"Mythic"}
  ELSE IF minute = 0 /\ second = 0 /\ third = 0 THEN {"Legendary"}
  ELSE IF minute = 0 /\ third = 0 THEN {"Epic"}
  ELSE IF second = 0 /\ third = 0 THEN {"Rare"}
  ELSE IF third = 0 THEN {"Uncommon"}
  ELSE IF subsidy = 0 THEN {"Panic", "Common"}
  ELSE IF third = subsidy - 1 THEN {BlackTier(minute, second)}
  ELSE {"Common"}

\* Mutant: the last-position rule is tried before the plain `third == 0` rule.
FromSat_LastBeforeFirst(hour, minute, second, third, subsidy) ==
  IF hour = 0 /\ minute = 0 /\ second = 0 /\ third = 0 THEN {"Mythic"}
  ELSE IF minute = 0 /\ second = 0 /\ third = 0 THEN {"Legendary"}
  ELSE IF minute = 0 /\ third = 0 THEN {"Epic"}
  ELSE IF second = 0 /\ third = 0 THEN {"Rare"}
  ELSE IF subsidy = 0 THEN {"Panic", "Common"}
  ELSE IF third = subsidy - 1 THEN {BlackTier(minute, second)}
  ELSE IF third = 0 THEN {"Uncommon"}
  ELSE {"Common"}

\* Mutant: the Epic rule is tried before the Legendary rule.
FromSat_EpicFirst(hour, minute, second, third, subsidy) ==
  IF hour = 0 /\ minute = 0 /\ second = 0 /\ third = 0 THEN {"Mythic"}
  ELSE IF minute = 0 /\ third = 0 THEN {"Epic"}
  ELSE IF minute = 0 /\ second = 0 /\ third = 0 THEN {"Legendary"}
  ELSE IF second = 0 /\ third = 0 THEN {"Rare"}
  ELSE IF third = 0 THEN {"Uncommon"}
  ELSE IF subsidy = 0 THEN {"Panic", "Common"}
  ELSE IF third = subsidy - 1 THEN {BlackTier(minute, second)}
  ELSE {"Common"}

FromSat(hour, minute, second, third, subsidy) ==
  IF hour = 0 /\ minute = 0 /\ second = 0 /\ third = 0 THEN {"Mythic"}
  ELSE IF minute = 0 /\ second = 0 /\ third = 0 THEN {"Legendary"}
  ELSE IF minute = 0 /\ third = 0 THEN {"Epic"}
  ELSE IF second = 0 /\ third = 0 THEN {"Rare"}
  ELSE IF third = 0 THEN {"Uncommon"}
  ELSE IF subsidy = 0 THEN {"Panic", "Common"}
  ELSE IF third = subsidy - 1 THEN {BlackTier(minute, second)}
  ELSE {"Common"}

(***************************************************************************)
(* The collaborators of the derivation: the subsidy of an epoch, which     *)
(* halves at every era boundary, and the degree of the unit at a given     *)
(* offset in the reward of the block at a given height.                    *)
(***************************************************************************)
Subsidy(epoch) == InitialSubsidy \div (2 ^ epoch)

Degree(h, third) ==
  [ hour   |-> h \div SUBSIDY_HALVING_INTERVAL,
    minute |-> h % SUBSIDY_HALVING_INTERVAL,
    second |-> h % DIFFCHANGE_INTERVAL,
    third  |-> third ]

SatRarity(h, third) ==
  LET d == Degree(h, third)
  IN  FromSat(d.hour, d.minute, d.second, d.third, Subsidy(d.hour))

(***************************************************************************)
(* Inputs.                                                                 *)
(***************************************************************************)
\* Coordinates and subsidies with 0 <= third < subsidy.
Coordinates ==
  { c \in [ hour : 0..MaxHour,
            minute : 0..(SUBSIDY_HALVING_INTERVAL - 1),
            second : 0..(DIFFCHANGE_INTERVAL - 1),
            third : 0..(MaxSubsidy - 1),
            subsidy : 1..MaxSubsidy ] : c.third < c.subsidy }

\* r a e R space
Alphabet == {114, 97, 101, 82, 32}

ShortStrs == UNION { [1..n -> Alphabet] : n \in 0..MaxStrLen }

NearMisses ==
  { <<102, 111, 111>>,                                   \* foo
    <<67, 111, 109, 109, 111, 110>>,                     \* Common
    <<32, 99, 111, 109, 109, 111, 110>>,                 \* " common"
    <<99, 111, 109, 109, 111, 110, 32>>,                 \* "common "
    <<67, 79, 77, 77, 79, 78>>,                          \* COMMON
    <<98, 108, 97, 99, 107>>,                            \* black
    <<98, 108, 97, 99, 107, 95, 99, 111, 109, 109, 111, 110>>,   \* black_common
    <<98, 108, 97, 99, 107, 95, 109, 121, 116, 104, 105, 99>>,   \* black_mythic
    <<66, 108, 97, 99, 107, 95, 82, 97, 114, 101>>,      \* Black_Rare
    <<98, 108, 97, 99, 107, 45, 114, 97, 114, 101>>,     \* black-rare
    <<98, 108, 97, 99, 107, 114, 97, 114, 101>>,         \* blackrare
    <<66, 108, 97, 99, 107, 69, 112, 105, 99>> }         \* BlackEpic

InputStrs == { Fmt(r) : r \in Rarity } \cup NearMisses \cup ShortStrs

(***************************************************************************)
(* Initial state: nothing called yet; the walk stands on the first unit   *)
(* of the supply.                                                          *)
(***************************************************************************)
Init ==
  /\ call = "none"
  /\ arg = <<>>
  /\ ret = <<>>
  /\ height = 0
  /\ offset = 0
  /\ prev = "None"
  /\ cur \in SatRarity(0, 0)

(***************************************************************************)
(* One action per conversion, called when no call is in progress; Return   *)
(* ends the call and drops its record.                                     *)
(***************************************************************************)
IntoU8 ==
  \E rarity \in Rarity :
    /\ call = "none"
    /\ call' = "into_u8"
    /\ arg' = rarity
    /\ ret' = AsU8(rarity)
    /\ UNCHANGED walkVars

TryFrom ==
  \E n \in 0..U8_MAX :
    /\ call = "none"
    /\ call' = "try_from"
    /\ arg' = n
    /\ ret' = TryFromU8(n)
    /\ UNCHANGED walkVars

DisplayFmt ==
  \E rarity \in Rarity :
    /\ call = "none"
    /\ call' = "to_string"
    /\ arg' = rarity
    /\ ret' = Fmt(rarity)
    /\ UNCHANGED walkVars

Parse ==
  \E s \in InputStrs :
    /\ call = "none"
    /\ call' = "parse"
    /\ arg' = s
    /\ ret' = FromStr(s)
    /\ UNCHANGED walkVars

ToJson ==
  \E rarity \in Rarity :
    /\ call = "none"
    /\ call' = "serialize"
    /\ arg' = rarity
    /\ ret' = Serialize(rarity)
    /\ UNCHANGED walkVars

FromJson ==
  \E s \in InputStrs :
    /\ call = "none"
    /\ call' = "deserialize"
    /\ arg' = s
    /\ ret' = Deserialize(s)
    /\ UNCHANGED walkVars

RarityOf ==
  \E c \in Coordinates :
    /\ call = "none"
    /\ call' = "rarity"
    /\ arg' = c
    /\ ret' \in FromSat(c.hour, c.minute, c.second, c.third, c.subsidy)
    /\ UNCHANGED walkVars

Return ==
  /\ call # "none"
  /\ call' = "none"
  /\ arg' = <<>>
  /\ ret' = <<>>
  /\ UNCHANGED walkVars

Next ==
  \/ IntoU8
  \/ TryFrom
  \/ DisplayFmt
  \/ Parse
  \/ ToJson
  \/ FromJson
  \/ RarityOf
  \/ Return

Spec == Init /\ [][Next]_vars

(***************************************************************************)
(* The walk over the emission, unit by unit: within a block, then to the   *)
(* first unit of the next block, until the subsidy is exhausted.           *)
(***************************************************************************)
NextUnit ==
  /\ offset + 1 < Subsidy(height \div SUBSIDY_HALVING_INTERVAL)
  /\ offset' = offset + 1
  /\ height' = height
  /\ prev' = cur
  /\ cur' \in SatRarity(height, offset + 1)
  /\ UNCHANGED callVars

NextBlock ==
  /\ offset + 1 = Subsidy(height \div SUBSIDY_HALVING_INTERVAL)
  /\ Subsidy((height + 1) \div SUBSIDY_HALVING_INTERVAL) > 0
  /\ height' = height + 1
  /\ offset' = 0
  /\ prev' = cur
  /\ cur' \in SatRarity(height + 1, 0)
  /\ UNCHANGED callVars

WalkNext ==
  \/ NextUnit
  \/ NextBlock

WalkSpec == Init /\ [][WalkNext]_vars

(***************************************************************************)
(* Vocabulary of the claims.                                               *)
(***************************************************************************)
FirstTiers == {"Common", "Uncommon", "Rare", "Epic", "Legendary", "Mythic"}

BlackTiers == {"BlackUncommon", "BlackRare", "BlackEpic", "BlackLegendary"}

CanonicalName ==
  [ Common         |-> <<99, 111, 109, 109, 111, 110>>,
    Uncommon       |-> <<117, 110, 99, 111, 109, 109, 111, 110>>,
    Rare           |-> <<114, 97, 114, 101>>,
    Epic           |-> <<101, 112, 105, 99>>,
    Legendary      |-> <<108, 101, 103, 101, 110, 100, 97, 114, 121>>,
    Mythic         |-> <<109, 121, 116, 104, 105, 99>>,
    BlackUncommon  |-> <<98, 108, 97, 99, 107, 95, 117, 110, 99, 111, 109, 109, 111, 110>>,
    BlackRare      |-> <<98, 108, 97, 99, 107, 95, 114, 97, 114, 101>>,
    BlackEpic      |-> <<98, 108, 97, 99, 107, 95, 101, 112, 105, 99>>,
    BlackLegendary |-> <<98, 108, 97, 99, 107, 95, 108, 101, 103, 101, 110, 100, 97, 114, 121>> ]

CanonicalNames == { CanonicalName[r] : r \in DOMAIN CanonicalName }

SmallInt ==
  [ Common |-> 0, Uncommon |-> 1, Rare |-> 2, Epic |-> 3, Legendary |-> 4, Mythic |-> 5 ]

\* The ordered rule set of the derivation, and the tier of its first match.
RuleSet(c) ==
  << [ match |-> c.hour = 0 /\ c.minute = 0 /\ c.second = 0 /\ c.third = 0,
       tier  |-> "Mythic" ],
     [ match |-> c.minute = 0 /\ c.second = 0 /\ c.third = 0, tier |-> "Legendary" ],
     [ match |-> c.minute = 0 /\ c.third = 0, tier |-> "Epic" ],
     [ match |-> c.second = 0 /\ c.third = 0, tier |-> "Rare" ],
     [ match |-> c.third = 0, tier |-> "Uncommon" ],
     [ match |-> /\ c.third = c.subsidy - 1
                 /\ c.minute = SUBSIDY_HALVING_INTERVAL - 1
                 /\ c.second = DIFFCHANGE_INTERVAL - 1,
       tier  |-> "BlackLegendary" ],
     [ match |-> c.third = c.subsidy - 1 /\ c.minute = SUBSIDY_HALVING_INTERVAL - 1,
       tier  |-> "BlackEpic" ],
     [ match |-> c.third = c.subsidy - 1 /\ c.second = DIFFCHANGE_INTERVAL - 1,
       tier  |-> "BlackRare" ],
     [ match |-> c.third = c.subsidy - 1, tier |-> "BlackUncommon" ],
     [ match |-> TRUE, tier |-> "Common" ] >>

FirstMatch(c) ==
  LET rules == RuleSet(c)
      first == CHOOSE i \in DOMAIN rules :
                 rules[i].match /\ \A j \in 1..(i - 1) : ~rules[j].match
  IN  rules[first].tier

MatchingPairs ==
  { <<"BlackUncommon", "Uncommon">>, <<"BlackRare", "Rare">>,
    <<"BlackEpic", "Epic">>, <<"BlackLegendary", "Legendary">> }

(***************************************************************************)
(* C1: for every coordinate and subsidy with 0 <= third < subsidy, the     *)
(* derivation returns the tier of the first matching rule of the ordered   *)
(* rule set (Mythic, Legendary, Epic, Rare, Uncommon, the four black       *)
(* sub-rules of the last position, Common).                                *)
(***************************************************************************)
C1_FirstMatchingRule == call = "rarity" => ret = FirstMatch(arg)

C1_Witness == call = "rarity" /\ ret = "BlackLegendary" /\ arg.third = arg.subsidy - 1

(***************************************************************************)
(* C2: the conversion to u8 is defined only for the six first-position     *)
(* tiers (Common=0 .. Mythic=5); for each of the four black tiers it is    *)
(* rejected and no integer is produced.                                    *)
(***************************************************************************)
C2_BlackTiersUnrepresentable ==
  call = "into_u8" =>
    /\ arg \in FirstTiers => ret = SmallInt[arg]
    /\ arg \in BlackTiers => ret \notin 0..U8_MAX

(***************************************************************************)
(* C3: for each of the ten tiers, the string form is its lowercase         *)
(* snake-case name and parsing that string yields the tier again; the      *)
(* structured serialization hands out the same string, which parses to    *)
(* the tier again.                                                         *)
(***************************************************************************)
C3_StringRoundTrip ==
  /\ call = "to_string" => ret = CanonicalName[arg] /\ FromStr(ret) = Ok(arg)
  /\ call = "serialize" => ret = CanonicalName[arg] /\ FromStr(ret) = Ok(arg)

C3_Witness == call = "to_string" /\ arg = "BlackLegendary" /\ FromStr(ret) = Ok(arg)

(***************************************************************************)
(* C4: for each of the six first-position tiers, the conversion to u8      *)
(* gives 0,1,2,3,4,5 in declaration order and converting that number back  *)
(* succeeds with the same tier.                                            *)
(***************************************************************************)
C4_NumericRoundTrip ==
  call = "into_u8" /\ arg \in FirstTiers =>
    ret = SmallInt[arg] /\ TryFromU8(ret) = Ok(arg)

C4_Witness == call = "into_u8" /\ arg = "Mythic" /\ TryFromU8(ret) = Ok("Mythic")

(***************************************************************************)
(* C5: for every u8 n with 6 <= n <= 255 the conversion from u8 fails and  *)
(* the failure payload is exactly n; for every n in 0..5 it succeeds.      *)
(***************************************************************************)
C5_NumericDomain ==
  call = "try_from" =>
    IF arg \in 0..5 THEN ret.ok /\ ret.val \in FirstTiers
                    ELSE ~ret.ok /\ ret.val = arg

C5_Witness == call = "try_from" /\ arg = U8_MAX /\ ~ret.ok /\ ret.val = U8_MAX

(***************************************************************************)
(* C6: for every string that is not exactly one of the ten canonical       *)
(* names (differently-cased or padded variants included), parsing fails    *)
(* and the error is "invalid rarity " followed by the input verbatim       *)
(* between two backticks.                                                  *)
(***************************************************************************)
C6_ParseFailure ==
  call = "parse" /\ arg \notin CanonicalNames =>
    /\ ~ret.ok
    /\ Len(ret.val) = Len(arg) + 17
    /\ SubSeq(ret.val, 1, 16) =
         <<105, 110, 118, 97, 108, 105, 100, 32, 114, 97, 114, 105, 116, 121, 32, 96>>
    /\ SubSeq(ret.val, 17, 16 + Len(arg)) = arg
    /\ ret.val[Len(ret.val)] = 96

C6_Witness ==
  call = "parse" /\ arg = <<32, 99, 111, 109, 109, 111, 110>> /\ ~ret.ok

(***************************************************************************)
(* C7: for every coordinate with 0 <= third < subsidy the derivation does  *)
(* not fail: it has exactly one outcome, one of the ten tiers, and the     *)
(* u64 subtraction subsidy - 1 never overflows.                            *)
(***************************************************************************)
C7_Total ==
  call = "rarity" =>
    /\ ret \in Rarity
    /\ FromSat(arg.hour, arg.minute, arg.second, arg.third, arg.subsidy) = {ret}

C7_Witness ==
  call = "rarity" /\ arg.third # 0 /\ arg.third # arg.subsidy - 1 /\ ret = "Common"

(***************************************************************************)
(* C8: walking the emission in order, whenever the walk enters a block     *)
(* from a block whose era subsidy is at least 2, the last unit of the      *)
(* block left and the first unit of the block entered are a matching       *)
(* pair: (BlackUncommon, Uncommon), (BlackRare, Rare), (BlackEpic, Epic)   *)
(* or (BlackLegendary, Legendary).                                         *)
(***************************************************************************)
C8_BlackPrecedesFirst ==
  /\ offset = 0
  /\ height >= 1
  /\ Subsidy((height - 1) \div SUBSIDY_HALVING_INTERVAL) >= 2
  => <<prev, cur>> \in MatchingPairs

C8_Witness == offset = 0 /\ prev = "BlackLegendary" /\ cur = "Legendary"

C10_FirstBeforeLast ==
  call = "rarity" =>
    /\ ret \in BlackTiers <=> (arg.third = arg.subsidy - 1 /\ arg.third # 0)
    /\ arg.subsidy = 1 => ret \in {"Uncommon", "Rare", "Epic", "Legendary", "Mythic"}

C10_Witness ==
  /\ call = "rarity"
  /\ arg.subsidy = 1
  /\ arg.minute = SUBSIDY_HALVING_INTERVAL - 1
  /\ arg.second = DIFFCHANGE_INTERVAL - 1
  /\ ret = "Uncommon"

====
